---- MODULE Spec2Model ----
(***************************************************************************)
(* MealTracker: the push-subscription store, the write boundary            *)
(* (subscribe / unsubscribe / update-meal) and the notification scheduler  *)
(* with its three cron passes (hourly badge, interval reminder, daily      *)
(* reminder), the notification text resolver, and the target-hours setting  *)
(* and the meal history of the client's useMealTracker hook.               *)
(*                                                                         *)
(* Time is counted in ticks of 30 minutes: HOUR_MS ticks make one hour.    *)
(* The wall clock visits the instants of a specification's timeline.       *)
(***************************************************************************)
EXTENDS Integers, Sequences, FiniteSets, TLC

VARIABLES
    clock,                 \* the wall clock, in ticks
    races,                 \* requests handled since the running cron callback started
    pushSubs,              \* MemStorage.pushSubs, a Map in insertion order
    nextId,                \* the next randomUUID()
    lastNotificationSent,  \* the scheduler's Map<id, number>
    pass,                  \* the running invocation of each cron callback
    lastEvent,             \* what the last step did (observation only)
    dailyCount,            \* daily reminders delivered per id and day (observation only)
    qIn,                   \* quiet-hours evaluator: the inputs under test
    qOut,                  \* quiet-hours evaluator: the result
    targetHours,           \* the client's useMealTracker state targetHours
    fIn,                   \* badge count and text resolver: the inputs under test
    fOut,                  \* badge count and text resolver: the result
    clientLastMealTime,    \* the client's useMealTracker state lastMealTime
    mealHistory            \* the client's useMealTracker state mealHistory

vars == <<clock, races, pushSubs, nextId, lastNotificationSent, pass, lastEvent, dailyCount, qIn, qOut,
          targetHours, fIn, fOut, clientLastMealTime, mealHistory>>

----------------------------------------------------------------------------
(* Values *)

\* JavaScript null in a nullable column, and a field absent from a body
NULL == -1000
UNDEFINED == -2000

\* 60 * 60 * 1000 ms, scaled to ticks of 30 minutes
HOUR_MS == 2
THREE_HOURS_MS == 3 * HOUR_MS
DAY_MS == 24 * HOUR_MS
BADGE_MAX == 99

\* TARGET_HOURS_CONFIG of the client's constants
TARGET_HOURS_MIN == 1
TARGET_HOURS_MAX == 24
TARGET_HOURS_DEFAULT == 3

\* an instant of the model's calendar
At(day, hour, half) == day * DAY_MS + hour * HOUR_MS + half

\* Date.prototype.getHours and setHours(0,0,0,0) in the server's time zone
getHours(t) == (t % DAY_MS) \div HOUR_MS
startOfDay(t) == t - (t % DAY_MS)
DayOf(t) == t \div DAY_MS

Min(a, b) == IF a <= b THEN a ELSE b
Max(a, b) == IF a >= b THEN a ELSE b

\* Math.floor(x / d) for d > 0; \div rounds towards minus infinity as well
Floor(x, d) == x \div d

----------------------------------------------------------------------------
(* Bounds *)

\* the instants the wall clock may visit: with all three cron callbacks, with the
\* interval reminder, with the daily reminder
Instants == << At(1, 10, 0), At(1, 23, 0), At(2, 9, 0) >>
InstantsB == << At(1, 10, 0), At(1, 12, 1), At(1, 13, 0), At(1, 23, 0), At(2, 9, 0) >>
InstantsC == << At(1, 10, 0), At(1, 23, 0), At(2, 9, 0), At(2, 10, 0) >>

\* the instants around the trigger of the daily reminder, "0 9 * * *"
InstantsD == << At(1, 10, 0), At(2, 9, 0), At(2, 10, 0), At(2, 11, 0) >>

\* how many of the instants are visited, how many records are ever created, how many
\* cron callbacks are in progress at once, how many requests arrive during a callback
MaxInstants == 2
MaxInstantsB == 4
MaxInstantsC == 3
MaxInstantsT == 2
MaxInstantsD == 3
MaxInstantsH == 3
MaxInstantsO == 2
MaxInstantsR == 2
MaxHistory == 3
MaxIds == 2
MaxActivePasses == 1
MaxRaces == 1

\* the longest elapsed time, in hours, and the largest hour count the pure functions
\* are applied to
MaxElapsedHours == 101
MaxTextHours == 20

Endpoints == {"e1", "e2"}
Ids == 1..MaxIds
Days == 1..2
PassNames == {"A", "B", "C"}

\* the invocations of the cron callbacks that may be in progress: one of each pass, and
\* a second one of the interval reminder; PassOf names the callback an invocation runs
Invocations == PassNames \cup {"B2"}
PassOf(p) == IF p = "B2" THEN "B" ELSE p

----------------------------------------------------------------------------
(* The store: server/storage.ts, in-memory path *)

IndexOfEndpoint(subs, endpoint) ==
    IF \E k \in 1..Len(subs) : subs[k].endpoint = endpoint
    THEN CHOOSE k \in 1..Len(subs) : subs[k].endpoint = endpoint
    ELSE 0

IndexOfId(subs, id) ==
    IF \E k \in 1..Len(subs) : subs[k].id = id
    THEN CHOOSE k \in 1..Len(subs) : subs[k].id = id
    ELSE 0

\* { ...subscription, id }; pushSubs.set(created.endpoint, created); the in-memory
\* branch sets no createdAt (the column's defaultNow() applies in the database)
createPushSubscription(subs, subscription, id) ==
    LET created == [id |-> id] @@ subscription
                       @@ [lastDailyReminder |-> NULL, createdAt |-> UNDEFINED]
        k == IndexOfEndpoint(subs, subscription.endpoint)
    IN  IF k = 0 THEN Append(subs, created)
        ELSE [subs EXCEPT ![k] = created]

\* updatePushSubscription with the spread reversed, { ...data, ...item }
updatePushSubscriptionItemWins(subs, id, data) ==
    LET k == IndexOfId(subs, id)
    IN  IF k = 0 THEN subs
        ELSE [subs EXCEPT ![k] = subs[k] @@ data]

\* find by id; { ...item, ...data }; pushSubs.set(updated.endpoint, updated)
updatePushSubscription(subs, id, data) ==
    LET k == IndexOfId(subs, id)
    IN  IF k = 0 THEN subs
        ELSE [subs EXCEPT ![k] = data @@ subs[k]]

\* deletePushSubscription as pushSubs.clear()
deletePushSubscriptionClear(subs, endpoint) == <<>>

\* pushSubs.delete(endpoint)
deletePushSubscription(subs, endpoint) ==
    SelectSeq(subs, LAMBDA r : r.endpoint # endpoint)

\* Array.from(pushSubs.values())
getAllPushSubscriptions(subs) == subs

----------------------------------------------------------------------------
(* Observation of a step *)

\* kind and pass name the step; info is the response status, the reason of a continue or
\* the outcome of a send; data is the request body or the snapshot record the step was
\* about; left counts the snapshot records a returning callback has not evaluated
NoData == [endpoint |-> "-"]

\* payload is the second argument of sendPushNotification in the step that issues a send
NoPayload == [title |-> "-", body |-> <<>>, silent |-> FALSE, badgeCount |-> NULL]

Event(kind, p, info, badgeCount, left, data) ==
    [kind |-> kind, pass |-> p, info |-> info,
     badgeCount |-> badgeCount, left |-> left, data |-> data, payload |-> NoPayload]

ApiEvent(route, status, body) == Event("api", route, status, NULL, -1, body)

----------------------------------------------------------------------------
(* The write boundary: shared/schema.ts and server/routes.ts *)

\* a request is handled between two awaits of a cron callback in progress
Racing == \E p \in Invocations : pass[p].pc # "idle"

\* a cron callback is running between two awaits: until it awaits a send or returns,
\* the event loop runs nothing else
Synchronous == \E p \in Invocations : pass[p].pc = "loop"

RequestArrives ==
    /\ ~Synchronous
    /\ Racing => races < MaxRaces
    /\ races' = IF Racing THEN races + 1 ELSE races

Nullish(x) == x \in {NULL, UNDEFINED}

\* x ?? d
Coalesce(x, d) == IF Nullish(x) THEN d ELSE x

LANGUAGES == {"en", "de", "es"}

\* the refine() of insertPushSubscriptionSchema
quietHoursRefine(data) ==
    LET start == data.quietHoursStart
        end == data.quietHoursEnd
    IN  IF Nullish(start) # Nullish(end) THEN FALSE
        ELSE IF ~Nullish(start) /\ ~Nullish(end)
                /\ (start < 0 \/ start > 23 \/ end < 0 \/ end > 23 \/ start = end)
             THEN FALSE
             ELSE TRUE

\* the language column of the insert schema
languageAccepted(language) == language \in LANGUAGES

insertPushSubscriptionSchema(data) ==
    quietHoursRefine(data) /\ languageAccepted(data.language)

\* the object handed to insertPushSubscriptionSchema.parse by POST /api/push/subscribe
SubscribeInput(body) ==
    [endpoint |-> body.endpoint,
     keys |-> body.keys,
     lastMealTime |-> Coalesce(body.lastMealTime, NULL),
     quietHoursStart |-> Coalesce(body.quietHoursStart, NULL),
     quietHoursEnd |-> Coalesce(body.quietHoursEnd, NULL),
     language |-> IF body.language = "undefined" THEN "en" ELSE body.language]

\* Subscribe with the record of a known endpoint deleted and created anew
SubscribeRecreates(body) ==
    LET validated == SubscribeInput(body)
        k == IndexOfEndpoint(pushSubs, validated.endpoint)
    IN  /\ RequestArrives
        /\ IF ~insertPushSubscriptionSchema(validated)
           THEN /\ UNCHANGED <<pushSubs, nextId>>
                /\ lastEvent' = ApiEvent("subscribe", "400", body)
           ELSE IF k # 0
           THEN /\ nextId <= MaxIds
                /\ pushSubs' = createPushSubscription(pushSubs, validated, nextId)
                /\ nextId' = nextId + 1
                /\ lastEvent' = ApiEvent("subscribe", "200 updated", body)
           ELSE /\ nextId <= MaxIds
                /\ pushSubs' = createPushSubscription(pushSubs, validated, nextId)
                /\ nextId' = nextId + 1
                /\ lastEvent' = ApiEvent("subscribe", "200 created", body)
        /\ UNCHANGED <<clock, lastNotificationSent, pass, dailyCount, qIn, qOut, targetHours, fIn, fOut, clientLastMealTime, mealHistory>>

\* POST /api/push/subscribe
Subscribe(body) ==
    LET validated == SubscribeInput(body)
        k == IndexOfEndpoint(pushSubs, validated.endpoint)
    IN  /\ RequestArrives
        /\ IF ~insertPushSubscriptionSchema(validated)
           THEN /\ UNCHANGED <<pushSubs, nextId>>
                /\ lastEvent' = ApiEvent("subscribe", "400", body)
           ELSE IF k # 0
           THEN /\ pushSubs' = updatePushSubscription(pushSubs, pushSubs[k].id,
                                   [keys |-> validated.keys,
                                    lastMealTime |-> validated.lastMealTime,
                                    quietHoursStart |-> validated.quietHoursStart,
                                    quietHoursEnd |-> validated.quietHoursEnd,
                                    language |-> validated.language])
                /\ UNCHANGED nextId
                /\ lastEvent' = ApiEvent("subscribe", "200 updated", body)
           ELSE /\ nextId <= MaxIds
                /\ pushSubs' = createPushSubscription(pushSubs, validated, nextId)
                /\ nextId' = nextId + 1
                /\ lastEvent' = ApiEvent("subscribe", "200 created", body)
        /\ UNCHANGED <<clock, lastNotificationSent, pass, dailyCount, qIn, qOut, targetHours, fIn, fOut, clientLastMealTime, mealHistory>>

\* DELETE /api/push/unsubscribe
Unsubscribe(endpoint) ==
    /\ RequestArrives
    /\ pushSubs' = deletePushSubscription(pushSubs, endpoint)
    /\ lastEvent' = ApiEvent("unsubscribe", "200", [endpoint |-> endpoint])
    /\ UNCHANGED <<clock, nextId, lastNotificationSent, pass, dailyCount, qIn, qOut, targetHours, fIn, fOut, clientLastMealTime, mealHistory>>

\* UpdateMealData without the test start === end
UpdateMealDataEqualBounds(body) ==
    LET start == body.quietHoursStart
        end == body.quietHoursEnd
        meal == IF body.lastMealTime # UNDEFINED
                THEN [lastMealTime |-> body.lastMealTime] ELSE <<>>
        lang == IF body.language # "undefined"
                THEN [language |-> body.language] ELSE <<>>
        quiet == IF start # UNDEFINED \/ end # UNDEFINED
                 THEN [quietHoursStart |-> start, quietHoursEnd |-> end] ELSE <<>>
    IN  IF body.language # "undefined" /\ body.language \notin LANGUAGES
        THEN [status |-> "400", data |-> <<>>]
        ELSE IF (start # UNDEFINED \/ end # UNDEFINED)
                /\ (start = UNDEFINED \/ end = UNDEFINED)
        THEN [status |-> "400", data |-> <<>>]
        ELSE IF (start # UNDEFINED \/ end # UNDEFINED)
                /\ (start = NULL \/ end = NULL
                    \/ start < 0 \/ start > 23 \/ end < 0 \/ end > 23)
        THEN [status |-> "400", data |-> <<>>]
        ELSE [status |-> "200", data |-> meal @@ lang @@ quiet]

\* UpdateMealData without the test of the language
UpdateMealDataAnyLanguage(body) ==
    LET start == body.quietHoursStart
        end == body.quietHoursEnd
        meal == IF body.lastMealTime # UNDEFINED
                THEN [lastMealTime |-> body.lastMealTime] ELSE <<>>
        lang == IF body.language # "undefined"
                THEN [language |-> body.language] ELSE <<>>
        quiet == IF start # UNDEFINED \/ end # UNDEFINED
                 THEN [quietHoursStart |-> start, quietHoursEnd |-> end] ELSE <<>>
    IN  IF (start # UNDEFINED \/ end # UNDEFINED)
                /\ (start = UNDEFINED \/ end = UNDEFINED)
        THEN [status |-> "400", data |-> <<>>]
        ELSE IF (start # UNDEFINED \/ end # UNDEFINED)
                /\ (start = NULL \/ end = NULL
                    \/ start < 0 \/ start > 23 \/ end < 0 \/ end > 23)
        THEN [status |-> "400", data |-> <<>>]
        ELSE IF (start # UNDEFINED \/ end # UNDEFINED) /\ start = end
        THEN [status |-> "400", data |-> <<>>]
        ELSE [status |-> "200", data |-> meal @@ lang @@ quiet]

\* the updateData object of POST /api/push/update-meal, or the status of the early return
UpdateMealData(body) ==
    LET start == body.quietHoursStart
        end == body.quietHoursEnd
        meal == IF body.lastMealTime # UNDEFINED
                THEN [lastMealTime |-> body.lastMealTime] ELSE <<>>
        lang == IF body.language # "undefined"
                THEN [language |-> body.language] ELSE <<>>
        quiet == IF start # UNDEFINED \/ end # UNDEFINED
                 THEN [quietHoursStart |-> start, quietHoursEnd |-> end] ELSE <<>>
    IN  IF body.language # "undefined" /\ body.language \notin LANGUAGES
        THEN [status |-> "400", data |-> <<>>]
        ELSE IF (start # UNDEFINED \/ end # UNDEFINED)
                /\ (start = UNDEFINED \/ end = UNDEFINED)
        THEN [status |-> "400", data |-> <<>>]
        ELSE IF (start # UNDEFINED \/ end # UNDEFINED)
                /\ (start = NULL \/ end = NULL
                    \/ start < 0 \/ start > 23 \/ end < 0 \/ end > 23)
        THEN [status |-> "400", data |-> <<>>]
        ELSE IF (start # UNDEFINED \/ end # UNDEFINED) /\ start = end
        THEN [status |-> "400", data |-> <<>>]
        ELSE [status |-> "200", data |-> meal @@ lang @@ quiet]

\* UpdateMeal with lastMealTime written before the settings are validated
UpdateMealWritesFirst(body) ==
    LET k == IndexOfEndpoint(pushSubs, body.endpoint)
        r == UpdateMealData(body)
        meal == IF body.lastMealTime # UNDEFINED
                THEN [lastMealTime |-> body.lastMealTime] ELSE <<>>
    IN  /\ RequestArrives
        /\ IF k = 0
           THEN /\ UNCHANGED pushSubs
                /\ lastEvent' = ApiEvent("update-meal", "404", body)
           ELSE IF r.status # "200"
           THEN /\ pushSubs' = updatePushSubscription(pushSubs, pushSubs[k].id, meal)
                /\ lastEvent' = ApiEvent("update-meal", r.status, body)
           ELSE /\ pushSubs' = updatePushSubscription(pushSubs, pushSubs[k].id, r.data)
                /\ lastEvent' = ApiEvent("update-meal", "200", body)
        /\ UNCHANGED <<clock, nextId, lastNotificationSent, pass, dailyCount, qIn, qOut, targetHours, fIn, fOut, clientLastMealTime, mealHistory>>

\* POST /api/push/update-meal
UpdateMeal(body) ==
    LET k == IndexOfEndpoint(pushSubs, body.endpoint)
        r == UpdateMealData(body)
    IN  /\ RequestArrives
        /\ IF k = 0
           THEN /\ UNCHANGED pushSubs
                /\ lastEvent' = ApiEvent("update-meal", "404", body)
           ELSE IF r.status # "200"
           THEN /\ UNCHANGED pushSubs
                /\ lastEvent' = ApiEvent("update-meal", r.status, body)
           ELSE /\ pushSubs' = updatePushSubscription(pushSubs, pushSubs[k].id, r.data)
                /\ lastEvent' = ApiEvent("update-meal", "200", body)
        /\ UNCHANGED <<clock, nextId, lastNotificationSent, pass, dailyCount, qIn, qOut, targetHours, fIn, fOut, clientLastMealTime, mealHistory>>

----------------------------------------------------------------------------
(* The quiet-hours evaluator: isInQuietHours of the notification scheduler *)

\* isInQuietHours with the end hour counted into the window
isInQuietHoursEndInclusive(subscription, currentHour) ==
    LET start == subscription.quietHoursStart
        end == subscription.quietHoursEnd
    IN  IF start = NULL \/ end = NULL THEN FALSE
        ELSE IF start = end \/ start < 0 \/ start > 23 \/ end < 0 \/ end > 23 THEN FALSE
        ELSE IF start > end THEN currentHour >= start \/ currentHour <= end
        ELSE currentHour >= start /\ currentHour <= end

\* isInQuietHours without the defensive check of the bounds, null taken as 22 and 8
isInQuietHoursUnchecked(subscription, currentHour) ==
    LET start == IF subscription.quietHoursStart = NULL THEN 22
                 ELSE subscription.quietHoursStart
        end == IF subscription.quietHoursEnd = NULL THEN 8
               ELSE subscription.quietHoursEnd
    IN  IF start > end THEN currentHour >= start \/ currentHour < end
        ELSE currentHour >= start /\ currentHour < end

\* currentHour is new Date().getHours() at the time of the call
isInQuietHours(subscription, currentHour) ==
    LET start == subscription.quietHoursStart
        end == subscription.quietHoursEnd
    IN  IF start = NULL \/ end = NULL THEN FALSE
        ELSE IF start = end \/ start < 0 \/ start > 23 \/ end < 0 \/ end > 23 THEN FALSE
        ELSE IF start > end THEN currentHour >= start \/ currentHour < end
        ELSE currentHour >= start /\ currentHour < end

----------------------------------------------------------------------------
(* The scheduler: startNotificationScheduler *)

Idle == [pc |-> "idle", subs |-> <<>>, i |-> 0, now |-> 0]

\* hoursAgo without the Math.min
hoursAgoOfUnclamped(now, lastMealTime) == Floor(now - lastMealTime, HOUR_MS)

\* payload.badgeCount of the hourly badge and of the interval reminder
hoursAgoOf(now, lastMealTime) == Min(Floor(now - lastMealTime, HOUR_MS), BADGE_MAX)

\* hoursAgoRaw of the interval reminder
hoursAgoRawOf(now, lastMealTime) == Floor(now - lastMealTime, HOUR_MS)

\* the payloads of the three cron callbacks; a template literal is the sequence of its
\* pieces, a field left out of the object literal is FALSE (silent) or UNDEFINED
payloadA(subscription, now) ==
    [title |-> "", body |-> <<>>, silent |-> TRUE,
     badgeCount |-> hoursAgoOf(now, subscription.lastMealTime)]

payloadB(subscription, now) ==
    [title |-> "Mealtracker Erinnerung",
     body |-> <<"Letzte Mahlzeit war vor ",
                hoursAgoRawOf(now, subscription.lastMealTime), " Stunden">>,
     silent |-> FALSE,
     badgeCount |-> hoursAgoOf(now, subscription.lastMealTime)]

payloadC(subscription, now) ==
    [title |-> "Mealtracker", body |-> <<"Hast du heute schon Meals getrackt?">>,
     silent |-> FALSE, badgeCount |-> UNDEFINED]

payloadOf(p, subscription, now) ==
    IF PassOf(p) = "A" THEN payloadA(subscription, now)
    ELSE IF PassOf(p) = "B" THEN payloadB(subscription, now)
    ELSE payloadC(subscription, now)

\* !subscription.lastMealTime
noLastMealTime(subscription) ==
    subscription.lastMealTime = NULL \/ subscription.lastMealTime = 0

\* lastSent && (now - lastSent) < THREE_HOURS_MS
alreadySent(lastSent, now) ==
    lastSent # NULL /\ lastSent # 0 /\ (now - lastSent) < THREE_HOURS_MS

\* the day test of the daily reminder with > in place of >=
alreadySentTodayStrict(subscription, today) ==
    /\ subscription.lastDailyReminder # NULL
    /\ startOfDay(subscription.lastDailyReminder) > today

\* lastReminder (a Date, or null) && lastReminderDay >= today
alreadySentToday(subscription, today) ==
    /\ subscription.lastDailyReminder # NULL
    /\ startOfDay(subscription.lastDailyReminder) >= today

\* the decision of one loop iteration: "send", or the reason of the continue
DecideA(subscription, now) ==
    IF noLastMealTime(subscription) THEN "no lastMealTime" ELSE "send"

DecideB(subscription, now, currentHour, lastSent) ==
    IF noLastMealTime(subscription) THEN "no lastMealTime"
    ELSE IF isInQuietHours(subscription, currentHour) THEN "quiet hours"
    ELSE IF now - subscription.lastMealTime < THREE_HOURS_MS THEN "below threshold"
    ELSE IF alreadySent(lastSent, now) THEN "already sent"
    ELSE "send"

\* the daily reminder's decision with the meal-time test of the other two loops in front
DecideCNeedsMeal(subscription, today, currentHour) ==
    IF noLastMealTime(subscription) THEN "no lastMealTime"
    ELSE IF isInQuietHours(subscription, currentHour) THEN "quiet hours"
    ELSE IF alreadySentToday(subscription, today) THEN "already sent today"
    ELSE "send"

\* the daily reminder's decision without the quiet-hours test
DecideCNoQuietHours(subscription, today, currentHour) ==
    IF alreadySentToday(subscription, today) THEN "already sent today"
    ELSE "send"

DecideC(subscription, today, currentHour) ==
    IF isInQuietHours(subscription, currentHour) THEN "quiet hours"
    ELSE IF alreadySentToday(subscription, today) THEN "already sent today"
    ELSE "send"

Decide(p, subscription, now) ==
    IF PassOf(p) = "A" THEN DecideA(subscription, now)
    ELSE IF PassOf(p) = "B" THEN DecideB(subscription, now, getHours(clock),
                                 lastNotificationSent[subscription.id])
    ELSE DecideC(subscription, startOfDay(now), getHours(clock))

\* the cron callback starts: await storage.getAllPushSubscriptions(); now = Date.now()
PassStart(p) ==
    /\ ~Synchronous
    /\ pass[p].pc = "idle"
    /\ Cardinality({q \in Invocations : pass[q].pc # "idle"}) < MaxActivePasses
    /\ pass' = [pass EXCEPT ![p] = [pc |-> "loop",
                                    subs |-> getAllPushSubscriptions(pushSubs),
                                    i |-> 1, now |-> clock]]
    /\ races' = 0
    /\ lastEvent' = Event("start", p, "start", NULL, -1, NoData)
    /\ UNCHANGED <<clock, pushSubs, nextId, lastNotificationSent, dailyCount, qIn, qOut, targetHours, fIn, fOut, clientLastMealTime, mealHistory>>

\* PassStartFails without the try/catch: the rejection ends the scheduler
PassStartCrashes(p) ==
    /\ ~Synchronous
    /\ pass[p].pc = "idle"
    /\ Cardinality({q \in Invocations : pass[q].pc # "idle"}) < MaxActivePasses
    /\ pass' = [pass EXCEPT ![p].pc = "crashed"]
    /\ lastEvent' = Event("start", p, "store unavailable", NULL, -1, NoData)
    /\ UNCHANGED <<clock, races, pushSubs, nextId, lastNotificationSent, dailyCount, qIn, qOut, targetHours, fIn, fOut, clientLastMealTime, mealHistory>>

\* the cron callback starts and await storage.getAllPushSubscriptions() rejects: the
\* catch around the callback's body logs the error and the callback returns
PassStartFails(p) ==
    /\ ~Synchronous
    /\ pass[p].pc = "idle"
    /\ Cardinality({q \in Invocations : pass[q].pc # "idle"}) < MaxActivePasses
    /\ lastEvent' = Event("start", p, "store unavailable", NULL, -1, NoData)
    /\ UNCHANGED <<clock, races, pushSubs, nextId, lastNotificationSent, pass, dailyCount, qIn, qOut, targetHours, fIn, fOut, clientLastMealTime, mealHistory>>

\* cron.schedule("*/5 * * * *", ...) is given no noOverlap option: a later trigger calls
\* the callback again while the invocation started by an earlier trigger awaits a send
TriggerDuringSend ==
    /\ ~Synchronous
    /\ pass["B"].pc = "send" /\ clock > pass["B"].now
    /\ pass["B2"].pc = "idle"
    /\ pass' = [pass EXCEPT !["B2"] = [pc |-> "loop",
                                       subs |-> getAllPushSubscriptions(pushSubs),
                                       i |-> 1, now |-> clock]]
    /\ lastEvent' = Event("start", "B2", "start", NULL, -1, NoData)
    /\ UNCHANGED <<clock, races, pushSubs, nextId, lastNotificationSent, dailyCount, qIn, qOut, targetHours, fIn, fOut, clientLastMealTime, mealHistory>>

\* one iteration of for (const subscription of subscriptions), up to the await of the send
PassEval(p) ==
    /\ pass[p].pc = "loop"
    /\ pass[p].i <= Len(pass[p].subs)
    /\ LET subscription == pass[p].subs[pass[p].i]
           d == Decide(p, subscription, pass[p].now)
           badge == IF PassOf(p) = "C" THEN NULL
                    ELSE hoursAgoOf(pass[p].now, subscription.lastMealTime)
       IN  IF d = "send"
           THEN /\ pass' = [pass EXCEPT ![p].pc = "send"]
                /\ lastEvent' = [Event("issue", p, "send", badge, -1, subscription)
                                     EXCEPT !.payload = payloadOf(p, subscription, pass[p].now)]
           ELSE /\ pass' = [pass EXCEPT ![p].i = @ + 1]
                /\ lastEvent' = Event("skip", p, d, NULL, -1, subscription)
    /\ UNCHANGED <<clock, races, pushSubs, nextId, lastNotificationSent, dailyCount, qIn, qOut, targetHours, fIn, fOut, clientLastMealTime, mealHistory>>

\* SendSucceeds with lastNotificationSent.set in the success branch of every callback
SendSucceedsRecordingAll(p) ==
    /\ ~Synchronous
    /\ pass[p].pc = "send"
    /\ LET subscription == pass[p].subs[pass[p].i]
       IN  /\ pass' = [pass EXCEPT ![p].pc = "loop", ![p].i = @ + 1]
           /\ lastNotificationSent' =
                 [lastNotificationSent EXCEPT ![subscription.id] = pass[p].now]
           /\ pushSubs' =
                 IF PassOf(p) = "C"
                 THEN updatePushSubscription(pushSubs, subscription.id,
                                             [lastDailyReminder |-> clock])
                 ELSE pushSubs
           /\ dailyCount' =
                 IF PassOf(p) = "C"
                 THEN [dailyCount EXCEPT ![subscription.id][DayOf(clock)] = @ + 1]
                 ELSE dailyCount
           /\ lastEvent' = Event("done", p, "sent", NULL, -1, subscription)
    /\ UNCHANGED <<clock, races, nextId, qIn, qOut, targetHours, fIn, fOut, clientLastMealTime, mealHistory>>

\* SendSucceeds with the daily reminder's write as
\* pushSubs.set(subscription.endpoint, { ...subscription, lastDailyReminder })
SendSucceedsSetsRecord(p) ==
    /\ ~Synchronous
    /\ pass[p].pc = "send"
    /\ LET subscription == pass[p].subs[pass[p].i]
           k == IndexOfEndpoint(pushSubs, subscription.endpoint)
           updated == [subscription EXCEPT !.lastDailyReminder = clock]
       IN  /\ pass' = [pass EXCEPT ![p].pc = "loop", ![p].i = @ + 1]
           /\ lastNotificationSent' =
                 IF PassOf(p) = "B"
                 THEN [lastNotificationSent EXCEPT ![subscription.id] = pass[p].now]
                 ELSE lastNotificationSent
           /\ pushSubs' =
                 IF PassOf(p) = "C"
                 THEN IF k = 0 THEN Append(pushSubs, updated)
                      ELSE [pushSubs EXCEPT ![k] = updated]
                 ELSE pushSubs
           /\ dailyCount' =
                 IF PassOf(p) = "C"
                 THEN [dailyCount EXCEPT ![subscription.id][DayOf(clock)] = @ + 1]
                 ELSE dailyCount
           /\ lastEvent' = Event("done", p, "sent", NULL, -1, subscription)
    /\ UNCHANGED <<clock, races, nextId, qIn, qOut, targetHours, fIn, fOut, clientLastMealTime, mealHistory>>

\* SendSucceeds with the daily reminder's update carrying the record of the snapshot,
\* updatePushSubscription(subscription.id, { ...subscription, lastDailyReminder })
SendSucceedsWritesSnapshot(p) ==
    /\ ~Synchronous
    /\ pass[p].pc = "send"
    /\ LET subscription == pass[p].subs[pass[p].i]
       IN  /\ pass' = [pass EXCEPT ![p].pc = "loop", ![p].i = @ + 1]
           /\ lastNotificationSent' =
                 IF PassOf(p) = "B"
                 THEN [lastNotificationSent EXCEPT ![subscription.id] = pass[p].now]
                 ELSE lastNotificationSent
           /\ pushSubs' =
                 IF PassOf(p) = "C"
                 THEN updatePushSubscription(pushSubs, subscription.id,
                                             [subscription EXCEPT !.lastDailyReminder = clock])
                 ELSE pushSubs
           /\ dailyCount' =
                 IF PassOf(p) = "C"
                 THEN [dailyCount EXCEPT ![subscription.id][DayOf(clock)] = @ + 1]
                 ELSE dailyCount
           /\ lastEvent' = Event("done", p, "sent", NULL, -1, subscription)
    /\ UNCHANGED <<clock, races, nextId, qIn, qOut, targetHours, fIn, fOut, clientLastMealTime, mealHistory>>

\* sendPushNotification resolves true
SendSucceeds(p) ==
    /\ ~Synchronous
    /\ pass[p].pc = "send"
    /\ LET subscription == pass[p].subs[pass[p].i]
       IN  /\ pass' = [pass EXCEPT ![p].pc = "loop", ![p].i = @ + 1]
           /\ lastNotificationSent' =
                 IF PassOf(p) = "B"
                 THEN [lastNotificationSent EXCEPT ![subscription.id] = pass[p].now]
                 ELSE lastNotificationSent
           /\ pushSubs' =
                 IF PassOf(p) = "C"
                 THEN updatePushSubscription(pushSubs, subscription.id,
                                             [lastDailyReminder |-> clock])
                 ELSE pushSubs
           /\ dailyCount' =
                 IF PassOf(p) = "C"
                 THEN [dailyCount EXCEPT ![subscription.id][DayOf(clock)] = @ + 1]
                 ELSE dailyCount
           /\ lastEvent' = Event("done", p, "sent", NULL, -1, subscription)
    /\ UNCHANGED <<clock, races, nextId, qIn, qOut, targetHours, fIn, fOut, clientLastMealTime, mealHistory>>

\* SendFails with the writes of the success branch moved out of the if (success)
SendFailsRecording(p) ==
    /\ ~Synchronous
    /\ pass[p].pc = "send"
    /\ LET subscription == pass[p].subs[pass[p].i]
       IN  /\ pass' = [pass EXCEPT ![p].pc = "loop", ![p].i = @ + 1]
           /\ lastNotificationSent' =
                 IF PassOf(p) = "B"
                 THEN [lastNotificationSent EXCEPT ![subscription.id] = pass[p].now]
                 ELSE lastNotificationSent
           /\ pushSubs' =
                 IF PassOf(p) = "C"
                 THEN updatePushSubscription(pushSubs, subscription.id,
                                             [lastDailyReminder |-> clock])
                 ELSE pushSubs
           /\ lastEvent' = Event("done", p, "failed", NULL, -1, subscription)
    /\ UNCHANGED <<clock, races, nextId, dailyCount, qIn, qOut, targetHours, fIn, fOut, clientLastMealTime, mealHistory>>

\* sendPushNotification catches an error other than 410 and resolves false
SendFails(p) ==
    /\ ~Synchronous
    /\ pass[p].pc = "send"
    /\ pass' = [pass EXCEPT ![p].pc = "loop", ![p].i = @ + 1]
    /\ lastEvent' = Event("done", p, "failed", NULL, -1, pass[p].subs[pass[p].i])
    /\ UNCHANGED <<clock, races, pushSubs, nextId, lastNotificationSent, dailyCount, qIn, qOut, targetHours, fIn, fOut, clientLastMealTime, mealHistory>>

\* sendPushNotification re-throws the 410; the callback's catch around the loop logs it
SendExpired(p) ==
    /\ ~Synchronous
    /\ pass[p].pc = "send"
    /\ pass' = [pass EXCEPT ![p] = Idle]
    /\ lastEvent' = Event("done", p, "expired", NULL,
                          Len(pass[p].subs) - pass[p].i, pass[p].subs[pass[p].i])
    /\ UNCHANGED <<clock, races, pushSubs, nextId, lastNotificationSent, dailyCount, qIn, qOut, targetHours, fIn, fOut, clientLastMealTime, mealHistory>>

\* the loop is exhausted and the callback returns
PassEnd(p) ==
    /\ pass[p].pc = "loop"
    /\ pass[p].i > Len(pass[p].subs)
    /\ pass' = [pass EXCEPT ![p] = Idle]
    /\ lastEvent' = Event("end", p, "end", NULL, 0, NoData)
    /\ UNCHANGED <<clock, races, pushSubs, nextId, lastNotificationSent, dailyCount, qIn, qOut, targetHours, fIn, fOut, clientLastMealTime, mealHistory>>

\* cron.schedule("0 9 * * *", ...): the daily reminder's callback starts at 09:00
DAILY_HOUR == 9

DailyTrigger ==
    /\ getHours(clock) = DAILY_HOUR /\ clock % HOUR_MS = 0
    /\ PassStart("C")

\* the wall clock moves on to the next instant of the timeline
Advance(timeline) ==
    /\ ~Synchronous
    /\ \E k \in 1..(Len(timeline) - 1) :
          /\ clock = timeline[k]
          /\ clock' = timeline[k + 1]
    /\ lastEvent' = Event("clock", "-", "advance", NULL, -1, NoData)
    /\ UNCHANGED <<races, pushSubs, nextId, lastNotificationSent, pass, dailyCount, qIn, qOut, targetHours, fIn, fOut, clientLastMealTime, mealHistory>>

\* useMealTracker.updateTargetHours: the value is clamped and kept on the client
updateTargetHours(hours) ==
    /\ ~Synchronous
    /\ targetHours' = Max(TARGET_HOURS_MIN, Min(TARGET_HOURS_MAX, hours))
    /\ lastEvent' = Event("client", "-", "updateTargetHours", NULL, -1, NoData)
    /\ UNCHANGED <<clock, races, pushSubs, nextId, lastNotificationSent, pass, dailyCount,
                   qIn, qOut, fIn, fOut, clientLastMealTime, mealHistory>>

\* useMealTracker.trackMeal: the entry of Date.now() is put in front of the history
trackMeal ==
    LET now == clock
        newEntry == [timestamp |-> now, id |-> Len(mealHistory) + 1]
        updatedHistory == <<newEntry>> \o mealHistory
    IN  /\ Len(mealHistory) < MaxHistory
        /\ clientLastMealTime' = now
        /\ mealHistory' = updatedHistory
        /\ lastEvent' = Event("client", "-", "trackMeal", NULL, -1, NoData)
        /\ UNCHANGED <<clock, races, pushSubs, nextId, lastNotificationSent, pass, dailyCount,
                       qIn, qOut, targetHours, fIn, fOut>>

\* useMealTracker.updateLastMealTime: the timestamp replaces that of the first entry
updateLastMealTime(timestamp) ==
    /\ clientLastMealTime' = timestamp
    /\ mealHistory' = IF Len(mealHistory) > 0
                      THEN [mealHistory EXCEPT ![1].timestamp = timestamp]
                      ELSE mealHistory
    /\ lastEvent' = Event("client", "-", "updateLastMealTime", NULL, -1, NoData)
    /\ UNCHANGED <<clock, races, pushSubs, nextId, lastNotificationSent, pass, dailyCount,
                   qIn, qOut, targetHours, fIn, fOut>>

NoInput == [now |-> 0, lastMealTime |-> 0, language |-> "-", hours |-> 0]
NoText == [title |-> "-", body |-> <<>>]
NoOutput == [done |-> FALSE, badgeA |-> NULL, badgeB |-> NULL, text |-> NoText]

\* the badge count the hourly badge and the interval reminder put into their payloads
\* for a subscription with the meal time under test, at the time under test
BadgeSubscription ==
    [id |-> 1, endpoint |-> "e1", keys |-> "k1", lastMealTime |-> fIn.lastMealTime,
     lastDailyReminder |-> NULL, language |-> "en",
     quietHoursStart |-> NULL, quietHoursEnd |-> NULL]

EvaluateBadge ==
    /\ ~fOut.done
    /\ fOut' = [done |-> TRUE,
                badgeA |-> payloadA(BadgeSubscription, fIn.now).badgeCount,
                badgeB |-> payloadB(BadgeSubscription, fIn.now).badgeCount,
                text |-> NoText]
    /\ UNCHANGED <<clock, races, pushSubs, nextId, lastNotificationSent, pass, lastEvent,
                   dailyCount, qIn, qOut, targetHours, fIn, clientLastMealTime, mealHistory>>

----------------------------------------------------------------------------
(* The notification text resolver: shared/notifications.ts *)

\* threeHourReminder of each language: the title, and the template literal of the body
\* as the pieces around ${hours} (the accent of the Spanish body is left out)
notificationTranslations ==
    [en |-> [title |-> "Mealtracker Reminder",
             body |-> <<"Last meal was ", " hours ago">>],
     de |-> [title |-> "Mealtracker Erinnerung",
             body |-> <<"Letzte Mahlzeit war vor ", " Stunden">>],
     es |-> [title |-> "Recordatorio Mealtracker",
             body |-> <<"Ultima comida fue hace ", " horas">>]]

\* getNotificationText with de as the language of an unsupported value
getNotificationTextFallbackDe(language, hours) ==
    LET lang == IF language = "en" \/ language = "de" \/ language = "es"
                THEN language ELSE "de"
        translations == notificationTranslations[lang]
    IN  [title |-> translations.title,
         body |-> <<translations.body[1], hours, translations.body[2]>>]

getNotificationText(language, hours) ==
    LET lang == IF language = "en" \/ language = "de" \/ language = "es"
                THEN language ELSE "en"
        translations == notificationTranslations[lang]
    IN  [title |-> translations.title,
         body |-> <<translations.body[1], hours, translations.body[2]>>]

EvaluateText ==
    /\ ~fOut.done
    /\ fOut' = [done |-> TRUE, badgeA |-> NULL, badgeB |-> NULL,
                text |-> getNotificationText(fIn.language, fIn.hours)]
    /\ UNCHANGED <<clock, races, pushSubs, nextId, lastNotificationSent, pass, lastEvent,
                   dailyCount, qIn, qOut, targetHours, fIn, clientLastMealTime, mealHistory>>

\* isInQuietHours, and the two callbacks that consult it, are applied to a subscription
\* with the bounds under test, at the hour under test of the day after its meal
QuietSubscription ==
    [id |-> 1, endpoint |-> "e1", keys |-> "k1", lastMealTime |-> At(1, 6, 0),
     lastDailyReminder |-> NULL, language |-> "en",
     quietHoursStart |-> qIn.quietHoursStart, quietHoursEnd |-> qIn.quietHoursEnd]

QuietUnset == [done |-> FALSE, inQuiet |-> FALSE, decideB |-> "-", decideC |-> "-"]

EvaluateQuietHours ==
    /\ ~qOut.done
    /\ qOut' = [done |-> TRUE,
                inQuiet |-> isInQuietHours(QuietSubscription, qIn.hour),
                decideB |-> DecideB(QuietSubscription, At(2, qIn.hour, 0), qIn.hour, NULL),
                decideC |-> DecideC(QuietSubscription, At(2, 0, 0), qIn.hour)]
    /\ UNCHANGED <<clock, races, pushSubs, nextId, lastNotificationSent, pass, lastEvent,
                   dailyCount, qIn, targetHours, fIn, fOut, clientLastMealTime, mealHistory>>

----------------------------------------------------------------------------
(* Request bodies and the specifications *)

\* the meal times a client reports
EarlyMeal == At(1, 6, 0)
LateMeal == At(1, 19, 0)

\* the first device reports no meal, an early meal, or an early meal with quiet hours
\* 22-8, and later a meal at the epoch or a late meal; the second device subscribes
\* with an early meal and no quiet hours
SchedSubscribeBodies ==
    [endpoint : {"e1"}, keys : {"k1"}, lastMealTime : {NULL, EarlyMeal},
     quietHoursStart : {UNDEFINED}, quietHoursEnd : {UNDEFINED}, language : {"undefined"}]
    \cup
    [endpoint : {"e1"}, keys : {"k1"}, lastMealTime : {EarlyMeal},
     quietHoursStart : {22}, quietHoursEnd : {8}, language : {"undefined"}]
    \cup
    [endpoint : {"e2"}, keys : {"k1"}, lastMealTime : {EarlyMeal},
     quietHoursStart : {UNDEFINED}, quietHoursEnd : {UNDEFINED}, language : {"undefined"}]

SchedUpdateBodies ==
    [endpoint : {"e1"}, lastMealTime : {0, LateMeal},
     quietHoursStart : {UNDEFINED}, quietHoursEnd : {UNDEFINED}, language : {"undefined"}]

\* settings a client may send along with its endpoint: three that pass validation,
\* then one quiet-hours bound alone, a bound out of range, equal bounds, an unknown language
StoreSubscribeSettings ==
    { [keys |-> "k1", lastMealTime |-> UNDEFINED, quietHoursStart |-> UNDEFINED,
       quietHoursEnd |-> UNDEFINED, language |-> "undefined"],
      [keys |-> "k2", lastMealTime |-> EarlyMeal, quietHoursStart |-> 22,
       quietHoursEnd |-> 8, language |-> "de"],
      [keys |-> "k1", lastMealTime |-> NULL, quietHoursStart |-> NULL,
       quietHoursEnd |-> NULL, language |-> "es"],
      [keys |-> "k2", lastMealTime |-> EarlyMeal, quietHoursStart |-> 22,
       quietHoursEnd |-> UNDEFINED, language |-> "en"],
      [keys |-> "k2", lastMealTime |-> EarlyMeal, quietHoursStart |-> 24,
       quietHoursEnd |-> 8, language |-> "en"],
      [keys |-> "k2", lastMealTime |-> EarlyMeal, quietHoursStart |-> 22,
       quietHoursEnd |-> 22, language |-> "en"],
      [keys |-> "k2", lastMealTime |-> EarlyMeal, quietHoursStart |-> 22,
       quietHoursEnd |-> 8, language |-> "fr"] }

StoreSubscribeBodies ==
    {[endpoint |-> e] @@ settings : e \in Endpoints, settings \in StoreSubscribeSettings}

StoreUpdateSettings ==
    { [lastMealTime |-> LateMeal, quietHoursStart |-> UNDEFINED,
       quietHoursEnd |-> UNDEFINED, language |-> "undefined"],
      [lastMealTime |-> UNDEFINED, quietHoursStart |-> 1,
       quietHoursEnd |-> 6, language |-> "es"],
      [lastMealTime |-> LateMeal, quietHoursStart |-> UNDEFINED,
       quietHoursEnd |-> 6, language |-> "undefined"],
      [lastMealTime |-> LateMeal, quietHoursStart |-> 1,
       quietHoursEnd |-> 24, language |-> "undefined"],
      [lastMealTime |-> LateMeal, quietHoursStart |-> NULL,
       quietHoursEnd |-> NULL, language |-> "undefined"],
      [lastMealTime |-> LateMeal, quietHoursStart |-> 6,
       quietHoursEnd |-> 6, language |-> "undefined"],
      [lastMealTime |-> LateMeal, quietHoursStart |-> UNDEFINED,
       quietHoursEnd |-> UNDEFINED, language |-> "fr"] }

StoreUpdateBodies ==
    {[endpoint |-> e] @@ settings : e \in Endpoints, settings \in StoreUpdateSettings}

QuietValues == {NULL} \cup (-1..24)

\* the time of the badge evaluations and the meal times before it, half hour by half hour
BadgeNow == At(6, 0, 0)
BadgeMealTimes == {BadgeNow - d : d \in 0..(MaxElapsedHours * HOUR_MS + 1)}

\* language values handed to the resolver: the supported ones, an unsupported one, a
\* supported one in capitals, the empty string, null and undefined
TextLanguages == {"en", "de", "es", "fr", "EN", "", "null", "undefined"}

Timeline == SubSeq(Instants, 1, MaxInstants)
TimelineB == SubSeq(InstantsB, 1, MaxInstantsB)
TimelineC == SubSeq(InstantsC, 1, MaxInstantsC)
TimelineT == SubSeq(InstantsB, 1, MaxInstantsT)
TimelineD == SubSeq(InstantsD, 1, MaxInstantsD)

\* the first device subscribes with quiet hours 8-10 or with none and later sets quiet
\* hours 1-6; the second device subscribes with none
DailySubscribeBodies ==
    [endpoint : {"e1"}, keys : {"k1"}, lastMealTime : {NULL},
     quietHoursStart : {8}, quietHoursEnd : {10}, language : {"undefined"}]
    \cup
    [endpoint : {"e1", "e2"}, keys : {"k1"}, lastMealTime : {NULL},
     quietHoursStart : {UNDEFINED}, quietHoursEnd : {UNDEFINED}, language : {"undefined"}]

DailyUpdateBodies ==
    [endpoint : {"e1"}, lastMealTime : {UNDEFINED},
     quietHoursStart : {1}, quietHoursEnd : {6}, language : {"undefined"}]

\* the hours a user enters as the target: below the range, inside it, above it
TargetHoursInputs == {0, 2, 5, 25}

\* the times a user enters in the edit dialog of the last meal: before the first
\* instant, between the instants, and after the last one
EditedTimes == {EarlyMeal, At(1, 12, 0), LateMeal, At(3, 0, 0)}

TimelineH == SubSeq(Instants, 1, MaxInstantsH)
TimelineO == SubSeq(InstantsB, 1, MaxInstantsO)
TimelineR == SubSeq(Instants, 1, MaxInstantsR)

\* the first device subscribes with an early meal and subscribes again with quiet hours
\* 22-8 and Spanish; the second device subscribes with an early meal
RaceSubscribeBodies ==
    [endpoint : {"e1", "e2"}, keys : {"k1"}, lastMealTime : {EarlyMeal},
     quietHoursStart : {UNDEFINED}, quietHoursEnd : {UNDEFINED}, language : {"undefined"}]
    \cup
    [endpoint : {"e1"}, keys : {"k2"}, lastMealTime : {EarlyMeal},
     quietHoursStart : {22}, quietHoursEnd : {8}, language : {"es"}]

\* the first device tracks a meal at the time t, or sets quiet hours 1-6 and German
RaceUpdateBodies(t) ==
    [endpoint : {"e1"}, lastMealTime : {t},
     quietHoursStart : {UNDEFINED}, quietHoursEnd : {UNDEFINED}, language : {"undefined"}]
    \cup
    [endpoint : {"e1"}, lastMealTime : {UNDEFINED},
     quietHoursStart : {1}, quietHoursEnd : {6}, language : {"de"}]

Init ==
    /\ clock = At(1, 10, 0)
    /\ races = 0
    /\ pushSubs = <<>>
    /\ nextId = 1
    /\ lastNotificationSent = [id \in Ids |-> NULL]
    /\ pass = [p \in Invocations |-> Idle]
    /\ lastEvent = Event("init", "-", "init", NULL, -1, NoData)
    /\ dailyCount = [id \in Ids |-> [d \in Days |-> 0]]
    /\ qIn = [quietHoursStart |-> NULL, quietHoursEnd |-> NULL, hour |-> 0]
    /\ qOut = QuietUnset
    /\ targetHours = TARGET_HOURS_DEFAULT
    /\ fIn = NoInput
    /\ fOut = NoOutput
    /\ clientLastMealTime = NULL
    /\ mealHistory = <<>>

Requests ==
    \/ \E body \in SchedSubscribeBodies : Subscribe(body)
    \/ \E endpoint \in Endpoints : Unsubscribe(endpoint)
    \/ \E body \in SchedUpdateBodies : UpdateMeal(body)

Callback(p) ==
    \/ PassStart(p)
    \/ PassStartFails(p)
    \/ PassEval(p)
    \/ SendSucceeds(p)
    \/ SendFails(p)
    \/ SendExpired(p)
    \/ PassEnd(p)

\* the three cron callbacks, the requests and the clock
Next ==
    \/ Requests
    \/ \E p \in PassNames : Callback(p)
    \/ Advance(Timeline)

Spec == Init /\ [][Next]_vars

\* the interval reminder, the requests and the clock
NextB ==
    \/ Requests
    \/ Callback("B")
    \/ Advance(TimelineB)

SpecB == Init /\ [][NextB]_vars

\* the daily reminder, the requests and the clock
NextC ==
    \/ Requests
    \/ Callback("C")
    \/ Advance(TimelineC)

SpecC == Init /\ [][NextC]_vars

\* the daily reminder as cron triggers it, the requests and the clock
NextD ==
    \/ \E body \in DailySubscribeBodies : Subscribe(body)
    \/ \E endpoint \in Endpoints : Unsubscribe(endpoint)
    \/ \E body \in DailyUpdateBodies : UpdateMeal(body)
    \/ DailyTrigger
    \/ PassEval("C")
    \/ SendSucceeds("C")
    \/ SendFails("C")
    \/ SendExpired("C")
    \/ PassEnd("C")
    \/ Advance(TimelineD)

SpecD == Init /\ [][NextD]_vars

\* the interval reminder, the requests, the clock and the user's target-hours setting
NextT ==
    \/ Requests
    \/ Callback("B")
    \/ Advance(TimelineT)
    \/ \E hours \in TargetHoursInputs : updateTargetHours(hours)

SpecT == Init /\ [][NextT]_vars

\* the interval reminder with a trigger that fires during a send, the requests and the
\* clock
NextO ==
    \/ Requests
    \/ Callback("B")
    \/ TriggerDuringSend
    \/ PassEval("B2")
    \/ SendSucceeds("B2")
    \/ SendFails("B2")
    \/ SendExpired("B2")
    \/ PassEnd("B2")
    \/ Advance(TimelineO)

SpecO == Init /\ [][NextO]_vars

\* the interval reminder and the daily reminder, with requests that track a meal at
\* the current time or change the settings while a callback awaits a send
NextR ==
    \/ \E body \in RaceSubscribeBodies : Subscribe(body)
    \/ \E endpoint \in Endpoints : Unsubscribe(endpoint)
    \/ \E body \in RaceUpdateBodies(clock) : UpdateMeal(body)
    \/ Callback("B")
    \/ Callback("C")
    \/ Advance(TimelineR)

SpecR == Init /\ [][NextR]_vars

\* the client's meal tracker and the clock
NextH ==
    \/ trackMeal
    \/ \E timestamp \in EditedTimes : updateLastMealTime(timestamp)
    \/ Advance(TimelineH)

SpecH == Init /\ [][NextH]_vars

\* the write boundary alone, with a wider range of request bodies
NextStore ==
    \/ \E body \in StoreSubscribeBodies : Subscribe(body)
    \/ \E endpoint \in Endpoints : Unsubscribe(endpoint)
    \/ \E body \in StoreUpdateBodies : UpdateMeal(body)

SpecStore == Init /\ [][NextStore]_vars

\* the quiet-hours evaluator alone, over every pair of bounds and every hour
InitQuiet ==
    /\ clock = At(1, 10, 0)
    /\ races = 0
    /\ pushSubs = <<>>
    /\ nextId = 1
    /\ lastNotificationSent = [id \in Ids |-> NULL]
    /\ pass = [p \in Invocations |-> Idle]
    /\ lastEvent = Event("init", "-", "init", NULL, -1, NoData)
    /\ dailyCount = [id \in Ids |-> [d \in Days |-> 0]]
    /\ qIn \in [quietHoursStart : QuietValues, quietHoursEnd : QuietValues, hour : 0..23]
    /\ qOut = QuietUnset
    /\ targetHours = TARGET_HOURS_DEFAULT
    /\ fIn = NoInput
    /\ fOut = NoOutput
    /\ clientLastMealTime = NULL
    /\ mealHistory = <<>>

NextQuiet == EvaluateQuietHours

SpecQuiet == InitQuiet /\ [][NextQuiet]_vars

\* the state before any request, with the inputs of a pure function under test
InitPure(inputs) ==
    /\ clock = At(1, 10, 0)
    /\ races = 0
    /\ pushSubs = <<>>
    /\ nextId = 1
    /\ lastNotificationSent = [id \in Ids |-> NULL]
    /\ pass = [p \in Invocations |-> Idle]
    /\ lastEvent = Event("init", "-", "init", NULL, -1, NoData)
    /\ dailyCount = [id \in Ids |-> [d \in Days |-> 0]]
    /\ qIn = [quietHoursStart |-> NULL, quietHoursEnd |-> NULL, hour |-> 0]
    /\ qOut = QuietUnset
    /\ targetHours = TARGET_HOURS_DEFAULT
    /\ fIn \in inputs
    /\ fOut = NoOutput
    /\ clientLastMealTime = NULL
    /\ mealHistory = <<>>

\* the badge count alone, over every elapsed time up to the bound
InitBadge ==
    InitPure([now : {BadgeNow}, lastMealTime : BadgeMealTimes,
              language : {"-"}, hours : {0}])

NextBadge == EvaluateBadge

SpecBadge == InitBadge /\ [][NextBadge]_vars

\* the text resolver alone, over every language value and hour count
InitText ==
    InitPure([now : {0}, lastMealTime : {0},
              language : TextLanguages, hours : 0..MaxTextHours])

NextText == EvaluateText

SpecText == InitText /\ [][NextText]_vars

----------------------------------------------------------------------------
(* Properties *)

Hours == 0..23

\* the window [start, end) of the hours of a day, wrapping past midnight when start > end
InWindow(start, end, hour) ==
    \/ start < end /\ start <= hour /\ hour < end
    \/ start > end /\ (hour >= start \/ hour < end)

ValidWindow(start, end) == start \in Hours /\ end \in Hours /\ start # end

\* C8: for bounds start # end in 0..23 and every hour, isInQuietHours is true exactly
\* when the hour lies in the window [start, end), taken around midnight when start > end:
\* the start hour is inside the window and the end hour is outside.
C8_QuietWindow ==
    (qOut.done /\ ValidWindow(qIn.quietHoursStart, qIn.quietHoursEnd)) =>
        /\ qOut.inQuiet <=> InWindow(qIn.quietHoursStart, qIn.quietHoursEnd, qIn.hour)
        /\ qIn.hour = qIn.quietHoursStart => qOut.inQuiet
        /\ qIn.hour = qIn.quietHoursEnd => ~qOut.inQuiet

\* a window around midnight, evaluated inside it and at its end
C8_Witness ==
    /\ qOut.done /\ qOut.inQuiet
    /\ qIn.quietHoursStart = 22 /\ qIn.quietHoursEnd = 8 /\ qIn.hour = 7

----------------------------------------------------------------------------
(* Properties of the badge count and of the text resolver *)

\* k is floor(elapsed / 1 hour)
IsFloorHours(k, elapsed) == k * HOUR_MS <= elapsed /\ elapsed < (k + 1) * HOUR_MS

\* C12: for an elapsed time of at least 99 hours the badge count of the hourly badge
\* and of the interval reminder is 99, and for a shorter non-negative elapsed time it
\* is the number of full hours elapsed.
C12_BadgeClamp ==
    fOut.done =>
        LET elapsed == fIn.now - fIn.lastMealTime
        IN  /\ elapsed >= 99 * HOUR_MS => fOut.badgeA = 99 /\ fOut.badgeB = 99
            /\ (0 <= elapsed /\ elapsed < 99 * HOUR_MS) =>
                  /\ fOut.badgeA \in 0..98 /\ IsFloorHours(fOut.badgeA, elapsed)
                  /\ fOut.badgeB = fOut.badgeA

\* a meal a hundred and a half hours ago gives the badge count 99
C12_Witness ==
    /\ fOut.done /\ fOut.badgeA = 99 /\ fOut.badgeB = 99
    /\ fIn.now - fIn.lastMealTime = 100 * HOUR_MS + 1

\* the fixed texts of the three languages
ExpectedText(language, hours) ==
    IF language = "de"
    THEN [title |-> "Mealtracker Erinnerung",
          body |-> <<"Letzte Mahlzeit war vor ", hours, " Stunden">>]
    ELSE IF language = "es"
    THEN [title |-> "Recordatorio Mealtracker",
          body |-> <<"Ultima comida fue hace ", hours, " horas">>]
    ELSE [title |-> "Mealtracker Reminder",
          body |-> <<"Last meal was ", hours, " hours ago">>]

\* C15: for en, de and es getNotificationText returns the language's title and its
\* body with the hour count in it; for every other value, null and undefined among
\* them, it returns what it returns for en.
C15_TextResolver ==
    fOut.done =>
        /\ fIn.language \in {"en", "de", "es"} =>
              fOut.text = ExpectedText(fIn.language, fIn.hours)
        /\ fIn.language \notin {"en", "de", "es"} =>
              /\ fOut.text = ExpectedText("en", fIn.hours)
              /\ fOut.text = getNotificationText("en", fIn.hours)

\* an unsupported language resolved to the English text for five hours
C15_Witness ==
    /\ fOut.done /\ fIn.language = "fr" /\ fIn.hours = 5
    /\ fOut.text.title = "Mealtracker Reminder"
    /\ fOut.text.body = <<"Last meal was ", 5, " hours ago">>

----------------------------------------------------------------------------
(* Properties of the scheduler *)

\* the last step was a loop iteration of callback p: it issued a send or it continued
Evaluated(p) == lastEvent.pass = p /\ lastEvent.kind \in {"issue", "skip"}
Issued(p) == lastEvent.pass = p /\ lastEvent.kind = "issue"
Skipped(p) == lastEvent.pass = p /\ lastEvent.kind = "skip"

\* the subscription's own quiet-hours window contains the hour
InOwnQuietHours(subscription, hour) ==
    /\ subscription.quietHoursStart # NULL
    /\ subscription.quietHoursEnd # NULL
    /\ ValidWindow(subscription.quietHoursStart, subscription.quietHoursEnd)
    /\ InWindow(subscription.quietHoursStart, subscription.quietHoursEnd, hour)

\* C3 as stated: for a subscription with no send-history entry, the interval reminder
\* attempts a send exactly when lastMealTime is non-null, the current hour is outside
\* the subscription's quiet-hours window and now - lastMealTime >= threshold.
C3_DecisionRule ==
    (Evaluated("B") /\ lastNotificationSent[lastEvent.data.id] = NULL) =>
        (Issued("B") <=>
            /\ lastEvent.data.lastMealTime # NULL
            /\ ~InOwnQuietHours(lastEvent.data, getHours(clock))
            /\ pass["B"].now - lastEvent.data.lastMealTime >= THREE_HOURS_MS)

\* the decision rule for a lastMealTime other than the epoch
DecisionRuleOfTrackedMeal ==
    (/\ Evaluated("B") /\ lastNotificationSent[lastEvent.data.id] = NULL
     /\ lastEvent.data.lastMealTime # 0) =>
        (Issued("B") <=>
            /\ lastEvent.data.lastMealTime # NULL
            /\ ~InOwnQuietHours(lastEvent.data, getHours(clock))
            /\ pass["B"].now - lastEvent.data.lastMealTime >= THREE_HOURS_MS)

\* the two scenarios of C3: a meal four hours ago, quiet hours 22-8; sent with
\* hoursAgo = 4 at hour 10
DecisionScenarios ==
    (/\ Evaluated("B")
     /\ lastNotificationSent[lastEvent.data.id] = NULL
     /\ lastEvent.data.lastMealTime = pass["B"].now - 4 * HOUR_MS
     /\ lastEvent.data.quietHoursStart = 22 /\ lastEvent.data.quietHoursEnd = 8) =>
        /\ getHours(clock) = 10 => Issued("B") /\ lastEvent.badgeCount = 4
        /\ getHours(clock) = 23 => Skipped("B") /\ lastEvent.info = "quiet hours"

\* the time since the subscription's last meal is at least the threshold
OverThreshold(subscription, now) ==
    /\ subscription.lastMealTime # NULL
    /\ now - subscription.lastMealTime >= THREE_HOURS_MS

\* C1 as stated: with a send recorded in the send-history at time T, no interval-reminder tick
\* with T <= now < T + threshold issues a send to that subscription, and a tick with
\* now >= T + threshold issues one when the subscription is over-threshold and outside
\* its quiet hours.
C1_Throttle ==
    Evaluated("B") =>
        LET T == lastNotificationSent[lastEvent.data.id]
            now == pass["B"].now
        IN  T # NULL =>
              /\ (T <= now /\ now < T + THREE_HOURS_MS) => Skipped("B")
              /\ (/\ now >= T + THREE_HOURS_MS
                  /\ OverThreshold(lastEvent.data, now)
                  /\ ~InOwnQuietHours(lastEvent.data, getHours(clock))) => Issued("B")

\* the throttle for a lastMealTime other than the epoch, which !lastMealTime lets pass
ThrottleOfTrackedMeal ==
    Evaluated("B") =>
        LET T == lastNotificationSent[lastEvent.data.id]
            now == pass["B"].now
        IN  T # NULL =>
              /\ (T <= now /\ now < T + THREE_HOURS_MS) => Skipped("B")
              /\ (/\ now >= T + THREE_HOURS_MS
                  /\ OverThreshold(lastEvent.data, now) /\ lastEvent.data.lastMealTime # 0
                  /\ ~InOwnQuietHours(lastEvent.data, getHours(clock))) => Issued("B")

\* a tick inside the window of an earlier send continues with "already sent"
ThrottleSkipReached ==
    /\ Skipped("B") /\ lastEvent.info = "already sent"
    /\ lastNotificationSent[lastEvent.data.id] = At(1, 10, 0)
    /\ pass["B"].now = At(1, 12, 1)

\* a tick at T + threshold sends again
ThrottleResendReached ==
    /\ Issued("B")
    /\ lastNotificationSent[lastEvent.data.id] = At(1, 10, 0)
    /\ pass["B"].now = At(1, 13, 0)

\* C13 as stated, for a lastMealTime other than the epoch: with the user's target hours
\* h, the interval reminder skips a subscription while less than h hours have elapsed
\* since its meal, sends once h hours have elapsed, and sends again no sooner than h
\* hours after a send.
C13_ThresholdIsTargetHours ==
    (/\ Evaluated("B")
     /\ lastEvent.data.lastMealTime # NULL /\ lastEvent.data.lastMealTime # 0
     /\ ~InOwnQuietHours(lastEvent.data, getHours(clock))) =>
        LET h == targetHours * HOUR_MS
            now == pass["B"].now
            elapsed == now - lastEvent.data.lastMealTime
            T == lastNotificationSent[lastEvent.data.id]
        IN  /\ elapsed < h => Skipped("B")
            /\ (T # NULL /\ T <= now /\ now - T < h) => Skipped("B")
            /\ (elapsed >= h /\ (T = NULL \/ now - T >= h)) => Issued("B")

\* C14 as stated: the title and the body of an interval reminder are what
\* getNotificationText returns for the language of the subscription it is sent to and
\* its hoursAgo.
C14_TextOfLanguage ==
    Issued("B") =>
        LET text == getNotificationText(lastEvent.data.language,
                                        hoursAgoOf(pass["B"].now, lastEvent.data.lastMealTime))
        IN  /\ lastEvent.payload.title = text.title
            /\ lastEvent.payload.body = text.body

DailyDue(subscription, now, hour) ==
    /\ ~InOwnQuietHours(subscription, hour)
    /\ \/ subscription.lastDailyReminder = NULL
       \/ DayOf(subscription.lastDailyReminder) < DayOf(now)

\* C16 as stated: an invocation of the daily reminder issues a send to every
\* subscription of its snapshot to which the reminder is due, also less than 24 hours
\* after the previous one, and does not return before it has done so.
C16_FirstOfDay ==
    [][ /\ (lastEvent'.pass = "C" /\ lastEvent'.kind \in {"issue", "skip"}
             /\ DailyDue(lastEvent'.data, pass'["C"].now, getHours(clock'))) =>
               lastEvent'.kind = "issue"
        /\ (pass["C"].pc # "idle" /\ pass'["C"].pc = "idle") =>
               \A k \in 1..Len(pass["C"].subs) :
                   k > pass["C"].i =>
                       ~DailyDue(pass["C"].subs[k], pass["C"].now, getHours(clock))
      ]_vars

\* the decision of the daily reminder for a subscription it reaches
DailyDecisionRule ==
    Evaluated("C") =>
        (Issued("C") <=> DailyDue(lastEvent.data, pass["C"].now, getHours(clock)))

\* the reminder is issued again on the next day, less than 24 hours after the last one
DailyWithinADayReached ==
    /\ Issued("C") /\ lastEvent.data.lastDailyReminder # NULL
    /\ pass["C"].now - lastEvent.data.lastDailyReminder < DAY_MS

\* the subscription's quiet-hours window contains the hour of the daily trigger
ContainsTrigger(subscription) == InOwnQuietHours(subscription, DAILY_HOUR)

\* the subscription's quiet hours in the store are those of the snapshot
QuietHoursUnchanged(subscription) ==
    LET k == IndexOfId(pushSubs, subscription.id)
    IN  /\ k # 0
        /\ pushSubs[k].quietHoursStart = subscription.quietHoursStart
        /\ pushSubs[k].quietHoursEnd = subscription.quietHoursEnd

\* C17 as stated: a subscription whose quiet hours contain 09:00, and have not
\* changed, is never delivered a daily reminder.
C17_NeverAtTrigger ==
    ~(/\ lastEvent.kind = "done" /\ lastEvent.info = "sent" /\ lastEvent.pass = "C"
      /\ ContainsTrigger(lastEvent.data)
      /\ QuietHoursUnchanged(lastEvent.data))

\* C17 as amended: the daily reminder is triggered at 09:00 only and skips a
\* subscription at every evaluation made inside its quiet hours; a subscription whose
\* quiet hours contain 09:00 is issued the reminder only by an invocation that is still
\* running after the window has ended.
C17_SkippedInsideWindow ==
    /\ pass["C"].pc # "idle" => getHours(pass["C"].now) = DAILY_HOUR
    /\ (Evaluated("C") /\ InOwnQuietHours(lastEvent.data, getHours(clock))) =>
          Skipped("C") /\ lastEvent.info = "quiet hours"
    /\ (Issued("C") /\ ContainsTrigger(lastEvent.data)) =>
          /\ clock > pass["C"].now
          /\ ~InOwnQuietHours(lastEvent.data, getHours(clock))

\* at 09:00 the daily reminder passes over a subscription with quiet hours 8-10
C17_Witness ==
    /\ Skipped("C") /\ lastEvent.info = "quiet hours"
    /\ getHours(clock) = DAILY_HOUR
    /\ lastEvent.data.quietHoursStart = 8 /\ lastEvent.data.quietHoursEnd = 10

\* C4 as stated: after the send to a subscription is answered with 410, the
\* subscription is no longer in the store.
C4_ExpiredDeleted ==
    (lastEvent.kind = "done" /\ lastEvent.info = "expired") =>
        IndexOfId(pushSubs, lastEvent.data.id) = 0
            /\ IndexOfEndpoint(pushSubs, lastEvent.data.endpoint) = 0

\* C5 as stated: an invocation that returns has evaluated every subscription of its
\* snapshot, also when the send to one of them threw.
C5_FullSweep == lastEvent.left \in {-1, 0}

\* the record of a subscription in the store, looked up by id
StoredLastDaily(subs, id) ==
    IF IndexOfId(subs, id) = 0 THEN NULL ELSE subs[IndexOfId(subs, id)].lastDailyReminder

\* C6: the interval reminder writes send-history[id], and the daily reminder writes
\* lastDailyReminder of the record with that id, in the step in which the send to that
\* subscription returned success and in no other step; after a transient failure
\* neither the send-history nor the store has changed.
C6_WriteOnlyOnSuccess ==
    [][ /\ \A id \in Ids :
              lastNotificationSent'[id] # lastNotificationSent[id] =>
                  /\ lastEvent'.kind = "done" /\ lastEvent'.info = "sent"
                  /\ lastEvent'.pass = "B" /\ lastEvent'.data.id = id
        /\ \A id \in Ids :
              (IndexOfId(pushSubs', id) # 0
               /\ StoredLastDaily(pushSubs', id) # StoredLastDaily(pushSubs, id)) =>
                  /\ lastEvent'.kind = "done" /\ lastEvent'.info = "sent"
                  /\ lastEvent'.pass = "C" /\ lastEvent'.data.id = id
        /\ (lastEvent'.kind = "done" /\ lastEvent'.info = "sent" /\ lastEvent'.pass = "B") =>
              lastNotificationSent'[lastEvent'.data.id] = pass["B"].now
        /\ (/\ lastEvent'.kind = "done" /\ lastEvent'.info = "sent" /\ lastEvent'.pass = "C"
            /\ IndexOfId(pushSubs, lastEvent'.data.id) # 0) =>
              StoredLastDaily(pushSubs', lastEvent'.data.id) = clock
        /\ (lastEvent'.kind = "done" /\ lastEvent'.info = "failed") =>
              /\ lastNotificationSent' = lastNotificationSent
              /\ pushSubs' = pushSubs
      ]_vars

\* the send of the interval reminder has returned false, and the send-history of the
\* subscription, still in the store, is as empty as before
C6_Witness ==
    /\ lastEvent.kind = "done" /\ lastEvent.info = "failed" /\ lastEvent.pass = "B"
    /\ IndexOfId(pushSubs, lastEvent.data.id) # 0
    /\ lastNotificationSent[lastEvent.data.id] = NULL

\* after a send that failed, a later invocation issues the send to the subscription again
RetryReached ==
    /\ Issued("B") /\ lastNotificationSent[lastEvent.data.id] = NULL
    /\ races = 0
    /\ pass["B"].now = At(1, 23, 0)
    /\ lastEvent.data.lastMealTime = LateMeal

\* C10: the hourly badge and the interval reminder never send to a subscription whose
\* lastMealTime is null; the daily reminder evaluates it and sends to it exactly when
\* it is outside its quiet hours and has no lastDailyReminder of the current day.
C10_NoMealTime ==
    /\ (Issued("A") \/ Issued("B")) => lastEvent.data.lastMealTime # NULL
    /\ (Evaluated("C") /\ lastEvent.data.lastMealTime = NULL) =>
         (Issued("C") <=>
             /\ ~InOwnQuietHours(lastEvent.data, getHours(clock))
             /\ \/ lastEvent.data.lastDailyReminder = NULL
                \/ DayOf(lastEvent.data.lastDailyReminder) < DayOf(pass["C"].now))

\* the daily reminder has been delivered to a subscription without a meal time
C10_Witness ==
    /\ lastEvent.kind = "done" /\ lastEvent.info = "sent" /\ lastEvent.pass = "C"
    /\ lastEvent.data.lastMealTime = NULL

\* the hourly badge has passed over a subscription without a meal time
C10_WitnessSkip ==
    /\ Skipped("A") /\ lastEvent.data.lastMealTime = NULL

\* the badge-only form of the payload for the subscription and the time of the invocation
BadgeOnly(subscription, now) ==
    [title |-> "", body |-> <<>>, silent |-> TRUE,
     badgeCount |-> Min((now - subscription.lastMealTime) \div HOUR_MS, BADGE_MAX)]

\* C11 as stated: the hourly badge sends to a subscription exactly when its lastMealTime
\* is non-null, whatever its quiet hours and whatever was sent before, and what it
\* sends is the silent payload with empty title and body and the badge count.
C11_BadgeAlways ==
    Evaluated("A") =>
        /\ Issued("A") <=> lastEvent.data.lastMealTime # NULL
        /\ Issued("A") => lastEvent.payload = BadgeOnly(lastEvent.data, pass["A"].now)

\* the same for a lastMealTime other than the epoch
BadgeOfTrackedMeal ==
    (Evaluated("A") /\ lastEvent.data.lastMealTime # 0) =>
        /\ Issued("A") <=> lastEvent.data.lastMealTime # NULL
        /\ Issued("A") => lastEvent.payload = BadgeOnly(lastEvent.data, pass["A"].now)

\* the badge is sent to a subscription inside its quiet hours
BadgeInQuietHoursReached ==
    Issued("A") /\ InOwnQuietHours(lastEvent.data, getHours(clock))

----------------------------------------------------------------------------
(* Properties of the write boundary *)

RecordsOf(endpoint) == {k \in 1..Len(pushSubs) : pushSubs[k].endpoint = endpoint}

Accepted(route) ==
    /\ lastEvent.kind = "api" /\ lastEvent.pass = route
    /\ lastEvent.info \in {"200", "200 created", "200 updated"}

\* C7: after an accepted subscribe request the store holds exactly one record for the
\* request's endpoint, and its keys, lastMealTime, quiet hours and language are those
\* of that request, also when the endpoint had a record before.
C7_Resubscribe ==
    Accepted("subscribe") =>
        /\ Cardinality(RecordsOf(lastEvent.data.endpoint)) = 1
        /\ LET r == pushSubs[IndexOfEndpoint(pushSubs, lastEvent.data.endpoint)]
               body == lastEvent.data
           IN  /\ r.keys = body.keys
               /\ r.lastMealTime = IF Nullish(body.lastMealTime) THEN NULL ELSE body.lastMealTime
               /\ r.quietHoursStart = IF Nullish(body.quietHoursStart) THEN NULL
                                      ELSE body.quietHoursStart
               /\ r.quietHoursEnd = IF Nullish(body.quietHoursEnd) THEN NULL
                                    ELSE body.quietHoursEnd
               /\ r.language = IF body.language = "undefined" THEN "en" ELSE body.language

\* a second subscribe with the endpoint of the record created first, after which the
\* record carries the second request's settings
C7_Witness ==
    /\ Accepted("subscribe") /\ lastEvent.info = "200 updated"
    /\ lastEvent.data.endpoint = "e1" /\ lastEvent.data.keys = "k2"
    /\ Len(pushSubs) = 2
    /\ pushSubs[1].endpoint = "e1" /\ pushSubs[1].id = 1
    /\ pushSubs[1].keys = "k2" /\ pushSubs[1].language = "de"

OtherLanguage(body) ==
    /\ "language" \in DOMAIN body
    /\ body.language # "undefined" /\ body.language \notin {"en", "de", "es"}

C20_RejectedUpdateChangesNothing ==
    [][ (/\ lastEvent'.kind = "api" /\ lastEvent'.pass = "update-meal"
         /\ lastEvent'.info \in {"400", "404"}) =>
            pushSubs' = pushSubs
      ]_vars

\* a request with a lastMealTime and equal quiet-hours bounds came back with 400, and
\* the record of its endpoint does not carry that lastMealTime
C20_Witness ==
    /\ lastEvent.kind = "api" /\ lastEvent.pass = "update-meal" /\ lastEvent.info = "400"
    /\ lastEvent.data.lastMealTime = LateMeal
    /\ lastEvent.data.quietHoursStart = 6 /\ lastEvent.data.quietHoursEnd = 6
    /\ IndexOfEndpoint(pushSubs, lastEvent.data.endpoint) # 0
    /\ pushSubs[IndexOfEndpoint(pushSubs, lastEvent.data.endpoint)].lastMealTime # LateMeal

\* the records of the store that are not of the endpoint, in the order of the store
OthersOf(subs, endpoint) == SelectSeq(subs, LAMBDA r : r.endpoint # endpoint)

UnsubscribeStep(event) == event.kind = "api" /\ event.pass = "unsubscribe"

\* C21: an unsubscribe request is answered with success, and after it the store holds
\* no record of its endpoint and every record of another endpoint as before; for an
\* endpoint without a record, and for the same endpoint a second time, the store is
\* left as it was.
C21_UnsubscribeIdempotent ==
    [][ UnsubscribeStep(lastEvent') =>
          LET endpoint == lastEvent'.data.endpoint
          IN  /\ lastEvent'.info = "200"
              /\ IndexOfEndpoint(pushSubs', endpoint) = 0
              /\ OthersOf(pushSubs', endpoint) = OthersOf(pushSubs, endpoint)
              /\ IndexOfEndpoint(pushSubs, endpoint) = 0 => pushSubs' = pushSubs
              /\ (UnsubscribeStep(lastEvent) /\ lastEvent.data.endpoint = endpoint) =>
                    pushSubs' = pushSubs
      ]_vars

\* e1 was unsubscribed though only e2 ever had a record, and the record of e2 is there
C21_Witness ==
    /\ UnsubscribeStep(lastEvent) /\ lastEvent.data.endpoint = "e1"
    /\ nextId = 2
    /\ Len(pushSubs) = 1 /\ pushSubs[1].endpoint = "e2" /\ pushSubs[1].id = 1

----------------------------------------------------------------------------
(* Properties of the scheduler and the store together *)

\* the callback of pass p found the store unreadable in the last step
StartFailed(event, p) ==
    event.kind = "start" /\ event.pass = p /\ event.info = "store unavailable"

\* C22: an invocation whose read of the subscriptions fails issues no send and changes
\* neither the store nor the send-history, the callback has returned, and the next
\* invocation of that pass that reads the store takes the store's records as its
\* snapshot and evaluates them from the first.
C22_StoreUnavailable ==
    [][ \A p \in PassNames :
          /\ StartFailed(lastEvent', p) =>
                /\ pushSubs' = pushSubs
                /\ lastNotificationSent' = lastNotificationSent
                /\ dailyCount' = dailyCount
                /\ pass'[p] = Idle
                /\ \A q \in PassNames : pass'[q] = pass[q]
          /\ (StartFailed(lastEvent, p) /\ lastEvent'.kind = "start"
                  /\ lastEvent'.pass = p /\ lastEvent'.info = "start") =>
                /\ pass'[p].pc = "loop" /\ pass'[p].i = 1
                /\ pass'[p].subs = pushSubs
                /\ pass'[p].now = clock
      ]_vars

\* the interval reminder found the store unreadable while a subscription was over the
\* threshold, and nothing was recorded for it
C22_Witness ==
    /\ StartFailed(lastEvent, "B")
    /\ Len(pushSubs) >= 1 /\ pushSubs[1].lastMealTime = EarlyMeal
    /\ lastNotificationSent[pushSubs[1].id] = NULL
    /\ pass["B"] = Idle

----------------------------------------------------------------------------
(* Properties of the client's meal tracker *)

\* C23 as stated: mealHistory is ordered by non-increasing timestamp from the first
\* entry on, after every trackMeal and updateLastMealTime.
C23_NewestFirst ==
    \A k \in 1..(Len(mealHistory) - 1) :
        mealHistory[k].timestamp >= mealHistory[k + 1].timestamp

\* trackMeal puts the entry of the current time in front and keeps the entries behind
\* it; updateLastMealTime changes the timestamp of the first entry and nothing else
HistoryEdits ==
    [][ /\ lastEvent'.info = "trackMeal" =>
              /\ mealHistory'[1].timestamp = clock /\ clientLastMealTime' = clock
              /\ Tail(mealHistory') = mealHistory
        /\ lastEvent'.info = "updateLastMealTime" =>
              /\ Len(mealHistory') = Len(mealHistory)
              /\ \A k \in 2..Len(mealHistory) : mealHistory'[k] = mealHistory[k]
              /\ Len(mealHistory) > 0 =>
                    /\ mealHistory'[1].timestamp = clientLastMealTime'
                    /\ mealHistory'[1].id = mealHistory[1].id
      ]_vars

----------------------------------------------------------------------------
(* Properties of overlapping invocations and of the passes' writes *)

\* C24 as stated: at no time are two invocations of the interval reminder in progress,
\* also when a send is pending for longer than the period of the trigger.
C24_NoOverlap ==
    ~(pass["B"].pc # "idle" /\ pass["B2"].pc # "idle")

\* the second invocation issues a send to the subscription the first one is still
\* sending to
DoubleSendReached ==
    /\ pass["B"].pc = "send" /\ pass["B2"].pc = "send"
    /\ pass["B"].subs[pass["B"].i].id = pass["B2"].subs[pass["B2"].i].id

\* the step was taken by an invocation of pass p
StepOf(event, p) ==
    event.kind \in {"start", "issue", "skip", "done", "end"} /\ PassOf(event.pass) = p

\* the record but for its lastDailyReminder
Settings(r) == [f \in DOMAIN r \ {"lastDailyReminder"} |-> r[f]]

\* C25: a step of the hourly badge writes nothing; a step of the interval reminder
\* leaves the store alone and changes the send-history only at the id it has sent to;
\* a step of the daily reminder leaves the send-history alone and changes in the store
\* only lastDailyReminder of the record it has sent to. No step of a pass changes
\* endpoint, keys, lastMealTime, quiet hours or language of a record, and the decisions
\* of the hourly badge and of the daily reminder do not depend on the send-history.
C25_DisjointWrites ==
    [][ /\ StepOf(lastEvent', "A") =>
              pushSubs' = pushSubs /\ lastNotificationSent' = lastNotificationSent
        /\ StepOf(lastEvent', "B") =>
              /\ pushSubs' = pushSubs
              /\ \A id \in Ids :
                    lastNotificationSent'[id] # lastNotificationSent[id] =>
                        /\ lastEvent'.kind = "done" /\ lastEvent'.info = "sent"
                        /\ lastEvent'.data.id = id
        /\ StepOf(lastEvent', "C") =>
              /\ lastNotificationSent' = lastNotificationSent
              /\ Len(pushSubs') = Len(pushSubs)
              /\ \A k \in 1..Len(pushSubs) :
                    /\ Settings(pushSubs'[k]) = Settings(pushSubs[k])
                    /\ pushSubs'[k] # pushSubs[k] =>
                          /\ lastEvent'.kind = "done" /\ lastEvent'.info = "sent"
                          /\ lastEvent'.data.id = pushSubs[k].id
        /\ (lastEvent'.kind \in {"issue", "skip"} /\ lastEvent'.pass = "A") =>
              (lastEvent'.kind = "issue"
                  <=> DecideA(lastEvent'.data, pass'["A"].now) = "send")
        /\ (lastEvent'.kind \in {"issue", "skip"} /\ lastEvent'.pass = "C") =>
              (lastEvent'.kind = "issue"
                  <=> DecideC(lastEvent'.data, startOfDay(pass'["C"].now),
                              getHours(clock')) = "send")
      ]_vars

\* the daily reminder has been sent to a subscription with a meal time and quiet
\* hours: its record has the lastDailyReminder of this instant, its settings are those
\* of the snapshot, and the send-history is empty
C25_Witness ==
    /\ lastEvent.kind = "done" /\ lastEvent.info = "sent" /\ lastEvent.pass = "C"
    /\ lastEvent.data.quietHoursStart = 22 /\ lastEvent.data.lastMealTime = EarlyMeal
    /\ IndexOfId(pushSubs, lastEvent.data.id) # 0
    /\ LET r == pushSubs[IndexOfId(pushSubs, lastEvent.data.id)]
       IN  /\ r.lastDailyReminder = clock
           /\ Settings(r) = Settings(lastEvent.data)
    /\ \A id \in Ids : lastNotificationSent[id] = NULL

----------------------------------------------------------------------------
(* Properties of requests that arrive during an invocation *)

\* the record stored under the id, or NoData when there is none
Stored(id) == IF IndexOfId(pushSubs, id) = 0 THEN NoData
              ELSE pushSubs[IndexOfId(pushSubs, id)]

IsStored(id) == IndexOfId(pushSubs, id) # 0

\* C26 as stated: when the interval reminder issues a send to a subscription, the
\* lastMealTime of its record in the store is at least the threshold ago, also when
\* the meal was tracked after the invocation read its snapshot.
C26_FreshMealTime ==
    (Issued("B") /\ IsStored(lastEvent.data.id)) =>
        LET stored == Stored(lastEvent.data.id)
        IN  stored.lastMealTime # NULL =>
                clock - stored.lastMealTime >= THREE_HOURS_MS

\* the same for the lastMealTime of the snapshot, which is what the callback tests
SnapshotMealTime ==
    Issued("B") => pass["B"].now - lastEvent.data.lastMealTime >= THREE_HOURS_MS

\* the daily reminder's send to the subscription of the event has returned success
DailySent(event) == event.kind = "done" /\ event.info = "sent" /\ event.pass = "C"

\* C27: no step of a pass adds a record to the store or brings back an endpoint; when
\* the daily reminder's send has succeeded for a subscription whose record was deleted
\* after the snapshot was read, the update by id leaves the store as it is, and the
\* endpoint stays absent.
C27_NoResurrection ==
    [][ /\ (\E p \in PassNames : StepOf(lastEvent', p)) =>
              /\ Len(pushSubs') = Len(pushSubs)
              /\ \A endpoint \in Endpoints :
                    IndexOfEndpoint(pushSubs, endpoint) = 0 =>
                        IndexOfEndpoint(pushSubs', endpoint) = 0
        /\ (DailySent(lastEvent') /\ ~IsStored(lastEvent'.data.id)) =>
              pushSubs' = pushSubs
      ]_vars

\* the daily reminder was delivered to e1, whose record was deleted while the send was
\* pending, and the store holds no record of e1
C27_Witness ==
    /\ DailySent(lastEvent) /\ lastEvent.data.endpoint = "e1"
    /\ races = 1
    /\ ~IsStored(lastEvent.data.id)
    /\ IndexOfEndpoint(pushSubs, "e1") = 0

\* an accepted update-meal request, or a subscribe request for an endpoint with a record
UpdatedByRequest(event) ==
    /\ event.kind = "api"
    /\ \/ event.pass = "update-meal" /\ event.info = "200"
       \/ event.pass = "subscribe" /\ event.info = "200 updated"

\* C28: when the daily reminder records lastDailyReminder in a record, the record's
\* lastMealTime, quiet hours and language are those the store held just before, with
\* every change applied since the snapshot was read; and an update-meal or a
\* re-subscribe of a record leaves its lastDailyReminder as it was.
C28_NoLostUpdate ==
    [][ /\ (DailySent(lastEvent') /\ IsStored(lastEvent'.data.id)) =>
              LET k == IndexOfId(pushSubs, lastEvent'.data.id)
              IN  /\ Settings(pushSubs'[k]) = Settings(pushSubs[k])
                  /\ pushSubs'[k].lastDailyReminder = clock
                  /\ \A j \in 1..Len(pushSubs) : j # k => pushSubs'[j] = pushSubs[j]
        /\ UpdatedByRequest(lastEvent') =>
              LET k == IndexOfEndpoint(pushSubs, lastEvent'.data.endpoint)
              IN  /\ k # 0
                  /\ pushSubs'[k].lastDailyReminder = pushSubs[k].lastDailyReminder
                  /\ pushSubs'[k].id = pushSubs[k].id
      ]_vars

\* the daily reminder was recorded in the record of e1, whose language and quiet hours
\* were changed while the send was pending: the record has both
C28_Witness ==
    /\ DailySent(lastEvent) /\ races = 1
    /\ IsStored(lastEvent.data.id)
    /\ lastEvent.data.language = "en" /\ lastEvent.data.quietHoursStart = NULL
    /\ LET r == Stored(lastEvent.data.id)
       IN  /\ r.language = "de" /\ r.quietHoursStart = 1 /\ r.quietHoursEnd = 6
           /\ r.lastDailyReminder = clock

\* a record with a lastDailyReminder was updated by a request and has kept it
ReminderSurvivesReached ==
    /\ UpdatedByRequest(lastEvent)
    /\ Stored(pushSubs[IndexOfEndpoint(pushSubs, lastEvent.data.endpoint)].id).lastDailyReminder # NULL

----------------------------------------------------------------------------
(* Properties of the badge count in the passes *)

\* C29 as stated: the badgeCount of every payload the hourly badge and the interval
\* reminder send is in 0..99, whatever lastMealTime the write boundary has stored, a
\* lastMealTime later than now included.
C29_BadgeRange ==
    (Issued("A") \/ Issued("B")) => lastEvent.payload.badgeCount \in 0..BADGE_MAX

\* the interval reminder sends only at or over the threshold, so its badge count is in 3..99
IntervalBadgeRange ==
    Issued("B") => lastEvent.payload.badgeCount \in 3..BADGE_MAX

\* the hourly badge's count is in 0..99 for a lastMealTime not later than now
BadgeRangeOfPastMeal ==
    (Issued("A") /\ lastEvent.data.lastMealTime <= pass["A"].now) =>
        lastEvent.payload.badgeCount \in 0..BADGE_MAX

----------------------------------------------------------------------------
(* Properties of a re-subscribe *)

SubscribeStep(event) == event.kind = "api" /\ event.pass = "subscribe"

\* C30: a subscribe request for an endpoint that has a record creates no record and
\* leaves id, createdAt and lastDailyReminder of that record, and the send-history, as
\* they were; so the interval reminder still finds the send-history entry under the id
\* and the daily reminder still finds the lastDailyReminder of the day.
C30_ResubscribeKeepsIdentity ==
    [][ (SubscribeStep(lastEvent')
           /\ IndexOfEndpoint(pushSubs, lastEvent'.data.endpoint) # 0) =>
          LET k == IndexOfEndpoint(pushSubs, lastEvent'.data.endpoint)
          IN  /\ lastEvent'.info \in {"200 updated", "400"}
              /\ Len(pushSubs') = Len(pushSubs) /\ nextId' = nextId
              /\ pushSubs'[k].endpoint = pushSubs[k].endpoint
              /\ pushSubs'[k].id = pushSubs[k].id
              /\ pushSubs'[k].createdAt = pushSubs[k].createdAt
              /\ pushSubs'[k].lastDailyReminder = pushSubs[k].lastDailyReminder
              /\ lastNotificationSent' = lastNotificationSent
      ]_vars

\* after an interval reminder was sent to e1 and e1 subscribed again with other keys,
\* the next invocation passes over it with "already sent"
C30_Witness ==
    /\ Skipped("B") /\ lastEvent.info = "already sent"
    /\ lastEvent.data.endpoint = "e1" /\ lastEvent.data.keys = "k2"
    /\ lastEvent.data.id = 1
    /\ lastNotificationSent[1] = pass["B"].now

\* the same for the daily reminder: the record with the new keys has the
\* lastDailyReminder of the day and is passed over with "already sent today"
DailySurvivesResubscribeReached ==
    /\ Skipped("C") /\ lastEvent.info = "already sent today"
    /\ lastEvent.data.endpoint = "e1" /\ lastEvent.data.keys = "k2"

====
